---- MODULE Spec2Model ----
(***************************************************************************)
(* Model of the ts-template-mcp server: the /mcp route with its session    *)
(* registry, and the tool / resource tables built by createMCPServer.      *)
(*                                                                         *)
(* The repository holds five server files.  Each is one value of the       *)
(* variable `variant`, fixed when the process starts:                      *)
(*   "main"      src/src/server.ts              (inputSchema + weather)    *)
(*   "zod"       src/unnamed/part_000           (validateToolArgs)         *)
(*   "sdk"       src/src/config/constants.ts:258-574  (typeof checks)      *)
(*   "handlers"  src/src/config/constants.ts:575-979  (setRequestHandler)  *)
(*   "basic"     src/src/config/constants.ts:92-257   (stateless /mcp)     *)
(*                                                                         *)
(* Collaborators that are not part of the repository (the MCP SDK, the     *)
(* Fastify reply, Date.now and Math.random) are the environment: their     *)
(* results are inputs, chosen with \E at the step where the code awaits    *)
(* or calls them.  The SDK is taken by the contract the code relies on:    *)
(* a registered tool callback receives the call's arguments, an exception  *)
(* of a callback is answered with an error, and a name the SDK does not    *)
(* find is answered with the SDK's own not-found error.                    *)
(***************************************************************************)
EXTENDS Integers, Sequences, FiniteSets, TLC

VARIABLES
  variant,     \* which server file is running
  sessions,    \* the Map `sessions`: session id -> transport
  created,     \* how many StreamableHTTPServerTransport objects were built
  log,         \* how often "Created new MCP session: <id>" was logged, per id
  req,         \* one record per in-flight /mcp request
  call,        \* tool pipeline: the tools/call under execution
  tpc,         \* tool pipeline: position inside the call
  trace,       \* tool pipeline: the statements executed so far
  result,      \* tool pipeline: the value returned to the caller
  read,        \* the resources/read under execution and its answer
  rest,        \* the answer to the last request on a REST route
  phase,       \* "running" until the process exits
  boot,        \* the command line, the environment and what startup created
  val          \* the last call of a validation helper and its outcome

vars == <<variant, sessions, created, log, req, call, tpc, trace, result,
          read, rest, phase, boot, val>>

---------------------------------------------------------------------------
(* Bounds *)

\* transports the server process builds before the run is cut off
MaxTransports == 2

\* the numbers given to the calculator are the integers -MaxNum..MaxNum
MaxNum == 2

\* Two /mcp requests can be in flight at once; a slot is reused once its
\* request has been answered, so any number of requests follow one another.
Req == {"r1", "r2"}

---------------------------------------------------------------------------
(* The server files *)

Variants == {"main", "zod", "sdk", "handlers", "basic"}

\* the files whose /mcp route keeps the `sessions` map
SessionVariants == {"main", "zod", "sdk", "handlers"}

---------------------------------------------------------------------------
(* JavaScript values that reach the code as tool arguments *)

Num(n) == [t |-> "number", n |-> n, s |-> ""]
Str(s) == [t |-> "string", n |-> 0, s |-> s]
Undef == [t |-> "undefined", n |-> 0, s |-> ""]

ArgNames == {"operation", "a", "b", "name", "latitude", "longitude", "state"}

NoArgs == [f \in ArgNames |-> Undef]

---------------------------------------------------------------------------
(* Session identifiers *)

\* request.headers['mcp-session-id'] when the header is absent
NoHdr == "<undefined>"

\* the values of `session-${Date.now()}-${Math.random()...}`; nothing in the
\* code keeps two evaluations from giving the same string
GenIds == {"g1", "g2"}

\* what a client can put in the header: nothing, the empty string, a string
\* of its own, or an identifier the server generated earlier
Headers == {NoHdr, "", "s1", "g1"}

Ids == (Headers \ {NoHdr, ""}) \cup GenIds

\* Map.get of a missing key
NoTransport == 0

\* a header counted as given whenever it is present, empty or not (faulty
\* variant of Truthy)
PresentHeader(h) == h # NoHdr

\* JavaScript truthiness of the header value on the left of `||`
Truthy(h) == h # NoHdr /\ h # ""

\* const sessionId = header || `session-...`
\* `a || b` evaluates b only when a is falsy: the generator runs for a
\* missing or empty header and not otherwise
Generated(h) == IF Truthy(h) THEN {"<unevaluated>"} ELSE GenIds

\* the header ignored and an identifier generated for every request (faulty
\* variant of ResolveSessionId)
AlwaysGenerated(h, g) == g

ResolveSessionId(h, g) == IF Truthy(h) THEN h ELSE g

\* params.sessionId of the JSON-RPC message in request.body, "" when the
\* message has none
ParamIds == {"", "p1"}

\* an identifier read from the message when it carries one (faulty variant
\* of SessionIdOf)
SessionIdFromParams(h, p, g) == IF p # "" THEN p ELSE ResolveSessionId(h, g)

\* const sessionId = ... of the route, given the request's header and
\* message: the expression reads request.headers and nothing of request.body
SessionIdOf(h, p, g) == ResolveSessionId(h, g)

SessionsGet(m, k) == IF k \in DOMAIN m THEN m[k] ELSE NoTransport

\* a map that keeps only its newest entry (faulty variant of SessionsSet)
SessionsSetEvicting(m, k, v) == [x \in {k} |-> v]

\* every session rebound to the newest transport (faulty variant of SessionsSet)
SessionsSetAll(m, k, v) == [x \in (DOMAIN m) \cup {k} |-> v]

SessionsSet(m, k, v) == [x \in (DOMAIN m) \cup {k} |-> IF x = k THEN v ELSE m[x]]

---------------------------------------------------------------------------
(* The capability tables built by createMCPServer *)

WeatherTools == <<"getWeatherForecast", "getWeatherAlerts">>

\* a table in which registerWeatherTools ran twice (faulty variant of
\* ToolTable)
ToolTableWeatherTwice(v) == <<"sayHello", "calculate">> \o WeatherTools \o WeatherTools

\* the names registered with registerTool, or listed by the tools/list
\* handler, in registration order
ToolTable(v) ==
  CASE v = "main" -> <<"sayHello", "calculate">> \o WeatherTools
    [] v = "zod" -> <<"sayHello", "calculate">> \o WeatherTools
    [] v = "sdk" -> <<"sayHello", "calculate">>
    [] v = "handlers" -> <<"sayHello", "calculate">>
    [] v = "basic" -> <<"sayHello">>

\* the URIs registered with registerResource, or listed by resources/list
ResourceTable(v) ==
  CASE v = "main" -> <<>>
    [] v = "zod" -> <<"mcp://server-info", "mcp://hello-message">>
    [] v = "sdk" -> <<"mcp://server-info", "mcp://hello-message">>
    [] v = "handlers" -> <<"mcp://server-info", "mcp://hello-message">>
    [] v = "basic" -> <<"hello://static">>

Range(q) == {q[i] : i \in DOMAIN q}

Registered(v, name) == name \in Range(ToolTable(v))

---------------------------------------------------------------------------
(* Values returned to the caller of a tool *)

NoResult == [kind |-> "none", text |-> "", code |-> "", message |-> ""]

Success(text) == [kind |-> "success", text |-> text, code |-> "", message |-> ""]

Failure(code, message) ==
  [kind |-> "error", text |-> "", code |-> code, message |-> message]

\* How an Error thrown inside a callback of the repository reaches the caller.
\* A registerTool callback is wrapped by the SDK, which answers with an error
\* result carrying the message.  A setRequestHandler callback is the request
\* handler itself: its Error carries no code, so the answer is the protocol's
\* internal error, as for any other unexpected exception of that handler.
ThrownAs(v) == IF v = "handlers" THEN "InternalError" ELSE "ToolError"

Thrown(v, message) == Failure(ThrownAs(v), message)

---------------------------------------------------------------------------
(* typeof and truthiness *)

IsNumber(x) == x.t = "number"
IsString(x) == x.t = "string"
Falsy(x) ==
  \/ x.t = "undefined"
  \/ x.t = "string" /\ x.s = ""
  \/ x.t = "number" /\ x.n = 0

---------------------------------------------------------------------------
(* Zod schemas *)

Operations == {"add", "subtract", "multiply", "divide"}

NameMaxLen == 100
LatMax == 90
LonMax == 180

UpperLetters ==
  {"A", "B", "C", "D", "E", "F", "G", "H", "I", "J", "K", "L", "M",
   "N", "O", "P", "Q", "R", "S", "T", "U", "V", "W", "X", "Y", "Z"}

\* the strings matched by /^[A-Z]{2}$/
UpperPairs == {x \o y : x \in UpperLetters, y \in UpperLetters}

NameSchema(x) == IsString(x) /\ Len(x.s) >= 1 /\ Len(x.s) <= NameMaxLen

LatitudeSchema(x) == IsNumber(x) /\ x.n >= -LatMax /\ x.n <= LatMax

LongitudeSchema(x) == IsNumber(x) /\ x.n >= -LonMax /\ x.n <= LonMax

StateSchema(x) == IsString(x) /\ Len(x.s) = 2 /\ x.s \in UpperPairs

SayHelloSchema(c) == c.hasArgs /\ NameSchema(c.args.name)

\* z.object({operation, a, b}) without the refinement
CalculateShape(c) ==
  /\ c.hasArgs
  /\ IsString(c.args.operation) /\ c.args.operation.s \in Operations
  /\ IsNumber(c.args.a)
  /\ IsNumber(c.args.b)

\* a refinement that rejects nothing (faulty variant of CalculateRefine)
RefineNothing(c) == TRUE

\* the predicate given to .refine(): false for a division by zero
CalculateRefine(c) == ~(c.args.operation.s = "divide" /\ c.args.b.n = 0)

CalculateSchema(c) == CalculateShape(c) /\ CalculateRefine(c)

WeatherForecastSchema(c) ==
  c.hasArgs /\ LatitudeSchema(c.args.latitude) /\ LongitudeSchema(c.args.longitude)

WeatherAlertsSchema(c) == c.hasArgs /\ StateSchema(c.args.state)

\* inputSchema: { name: z.string().min(1, ...) } of the stateless server
BasicNameSchema(c) == c.hasArgs /\ IsString(c.args.name) /\ Len(c.args.name.s) >= 1

---------------------------------------------------------------------------
(* JavaScript arithmetic on the numbers of the model, and their printing *)

Abs(x) == IF x < 0 THEN -x ELSE x

RECURSIVE Gcd(_, _)
Gcd(x, y) == IF y = 0 THEN x ELSE Gcd(y, x % y)

\* the number num/den in lowest terms; den = 0 stands for Infinity (num = 1),
\* -Infinity (num = -1) and NaN (num = 0)
Rat(n, d) == [num |-> n, den |-> d]

\* a / b
Divide(a, b) ==
  IF b = 0
  THEN Rat(IF a > 0 THEN 1 ELSE IF a < 0 THEN -1 ELSE 0, 0)
  ELSE LET g == Gcd(Abs(a), Abs(b))
           sgn == IF b < 0 THEN -1 ELSE 1
       IN Rat((sgn * a) \div g, Abs(b) \div g)

\* `${x}` for a number.  A quotient that is no integer is written n/d, which
\* names the same number as the decimal expansion JavaScript prints.
FormatNumber(r) ==
  IF r.den = 1 THEN ToString(r.num)
  ELSE IF r.den = 0
       THEN (IF r.num > 0 THEN "Infinity" ELSE IF r.num < 0 THEN "-Infinity" ELSE "NaN")
       ELSE ToString(r.num) \o "/" \o ToString(r.den)

\* `${x}` for an argument as it was received
FormatValue(x) == IF IsNumber(x) THEN ToString(x.n) ELSE x.s

\* `${a} ${operation} ${b} = ${result}`
CalculateText(c, r) ==
  FormatValue(c.args.a) \o " " \o FormatValue(c.args.operation) \o " "
    \o FormatValue(c.args.b) \o " = " \o FormatNumber(r)

---------------------------------------------------------------------------
(* The tool pipeline, one operator per stage *)

\* finding the tool named by tools/call: the SDK's lookup among the tools
\* given to registerTool, or `switch (name)` of the tools/call handler
LookupStep(v, c) ==
  IF Registered(v, c.name) THEN NoResult
  ELSE IF v = "handlers" THEN Thrown(v, "Unknown tool")
       ELSE Failure("NotFound", "Tool not found")

\* validateToolArgs(schema, args): the parsed data, or Error('Validation failed: ...')
validateToolArgs(v, ok) == IF ok THEN NoResult ELSE Thrown(v, "Validation failed")

\* the SDK checking the arguments against a tool's inputSchema before the callback
InputSchemaCheck(ok) == IF ok THEN NoResult ELSE Failure("InvalidParams", "Invalid arguments")

\* the checks written at the top of a callback that has neither
SayHelloGuard(v, c) ==
  IF v = "sdk" /\ ~c.hasArgs THEN Thrown(v, "TypeError")
  ELSE IF Falsy(c.args.name) \/ ~IsString(c.args.name)
       THEN Thrown(v, "Name parameter is required and must be a string")
       ELSE NoResult

CalculateGuard(v, c) ==
  IF ~c.hasArgs THEN Thrown(v, "TypeError")
  ELSE IF Falsy(c.args.operation) \/ ~IsNumber(c.args.a) \/ ~IsNumber(c.args.b)
       THEN Thrown(v, "Invalid parameters for calculation")
       ELSE NoResult

\* arguments passed on unchecked (faulty variant of ValidateStep)
ValidateNothing(v, c) == NoResult

\* what runs before any work of the tool: NoResult when the arguments pass
ValidateStep(v, c) ==
  CASE c.name = "sayHello" ->
         (CASE v = "main" -> InputSchemaCheck(SayHelloSchema(c))
            [] v = "basic" -> InputSchemaCheck(BasicNameSchema(c))
            [] v = "zod" -> validateToolArgs(v, SayHelloSchema(c))
            [] OTHER -> SayHelloGuard(v, c))
    [] c.name = "calculate" ->
         (CASE v = "main" -> InputSchemaCheck(CalculateShape(c))
            [] v = "zod" -> validateToolArgs(v, CalculateSchema(c))
            [] OTHER -> CalculateGuard(v, c))
    [] c.name = "getWeatherForecast" -> validateToolArgs(v, WeatherForecastSchema(c))
    [] c.name = "getWeatherAlerts" -> validateToolArgs(v, WeatherAlertsSchema(c))
    [] OTHER -> NoResult

\* a stage's outcome: the statements it ran, its result, and whether it
\* stopped at an await
Stage(events, res, wait) == [events |-> events, res |-> res, wait |-> wait]

\* `Hello, ${name}!`; the two older files end the greeting with an emoji,
\* written [tada] here
SayHelloBody(v, c) ==
  Stage(<<"greet">>,
        Success("Hello, " \o c.args.name.s \o
                (IF v \in {"sdk", "handlers"} THEN "! [tada]" ELSE "!")),
        FALSE)

\* a switch whose every case ends in the addition (faulty variant of
\* CalculateSwitch)
CalculateSwitchAddOnly(v, c) ==
  Stage(<<"add">>, Success(CalculateText(c, Rat(c.args.a.n + c.args.b.n, 1))), FALSE)

\* switch (operation) of the files that guard the division themselves
CalculateSwitch(v, c) ==
  LET op == c.args.operation
      a == c.args.a.n
      b == c.args.b.n
  IN CASE IsString(op) /\ op.s = "add" ->
            Stage(<<"add">>, Success(CalculateText(c, Rat(a + b, 1))), FALSE)
       [] IsString(op) /\ op.s = "subtract" ->
            Stage(<<"subtract">>, Success(CalculateText(c, Rat(a - b, 1))), FALSE)
       [] IsString(op) /\ op.s = "multiply" ->
            Stage(<<"multiply">>, Success(CalculateText(c, Rat(a * b, 1))), FALSE)
       [] IsString(op) /\ op.s = "divide" ->
            IF b = 0
            THEN Stage(<<>>, Thrown(v, "Division by zero is not allowed"), FALSE)
            ELSE Stage(<<"divide">>, Success(CalculateText(c, Divide(a, b))), FALSE)
       [] OTHER -> Stage(<<>>, Thrown(v, "Unknown operation"), FALSE)

\* switch (operation) of part_000, which leaves the zero divisor to the schema
CalculateSwitchZod(v, c) ==
  LET op == c.args.operation
      a == c.args.a.n
      b == c.args.b.n
  IN CASE IsString(op) /\ op.s = "add" ->
            Stage(<<"add">>, Success(CalculateText(c, Rat(a + b, 1))), FALSE)
       [] IsString(op) /\ op.s = "subtract" ->
            Stage(<<"subtract">>, Success(CalculateText(c, Rat(a - b, 1))), FALSE)
       [] IsString(op) /\ op.s = "multiply" ->
            Stage(<<"multiply">>, Success(CalculateText(c, Rat(a * b, 1))), FALSE)
       [] IsString(op) /\ op.s = "divide" ->
            Stage(<<"divide">>, Success(CalculateText(c, Divide(a, b))), FALSE)
       [] OTHER -> Stage(<<>>, Thrown(v, "Unknown operation"), FALSE)

\* the callback after its validation, up to its return or its first await
BodyStep(v, c) ==
  CASE c.name = "sayHello" -> SayHelloBody(v, c)
    [] c.name = "calculate" ->
         (IF v = "zod" THEN CalculateSwitchZod(v, c) ELSE CalculateSwitch(v, c))
    [] c.name = "getWeatherForecast" -> Stage(<<"simulateWeatherAPI">>, NoResult, TRUE)
    [] c.name = "getWeatherAlerts" -> Stage(<<"simulateAlertsAPI">>, NoResult, TRUE)
    [] OTHER -> Stage(<<>>, NoResult, FALSE)

\* a callback that returns without using what the API call gave (faulty
\* variant of ResumeStep)
ResumeWithoutValue(v, c, api) == Success("Weather forecast for coordinates:\n")

\* the callback after `await simulate...()` resolved with `api`
ResumeStep(v, c, api) ==
  IF c.name = "getWeatherForecast"
  THEN Success("Weather forecast for coordinates (" \o FormatValue(c.args.latitude)
               \o ", " \o FormatValue(c.args.longitude) \o "):\n" \o api)
  ELSE Success("Weather alerts for " \o c.args.state.s \o ":\n" \o api)

\* a whole tools/call, as the transport sees it
CallTool(v, c, api) ==
  LET l == LookupStep(v, c)
      w == ValidateStep(v, c)
      b == BodyStep(v, c)
  IN IF l # NoResult THEN l
     ELSE IF w # NoResult THEN w
     ELSE IF b.wait THEN ResumeStep(v, c, api)
     ELSE b.res

---------------------------------------------------------------------------
(* Requests and responses of the /mcp route *)

NoCall == [name |-> "", hasArgs |-> FALSE, args |-> NoArgs]

CalcCall(op, a, b) ==
  [name |-> "calculate", hasArgs |-> TRUE,
   args |-> [NoArgs EXCEPT !.operation = op, !.a = a, !.b = b]]

NoBody == [method |-> "", call |-> NoCall]

\* the JSON-RPC messages a client posts
Bodies ==
  { [method |-> "tools/list", call |-> NoCall],
    [method |-> "resources/list", call |-> NoCall],
    [method |-> "tools/call", call |-> CalcCall(Str("add"), Num(2), Num(3))] }

\* what connect() or handleRequest() can throw: an Error with a message, or a
\* value that is no Error
Errors ==
  { [isError |-> TRUE, message |-> "E1", statusCode |-> 0],
    [isError |-> FALSE, message |-> "", statusCode |-> 0] }

NoResp ==
  [src |-> "none", status |-> 0, fields |-> {}, error |-> "", message |-> "",
   items |-> <<>>, res |-> NoResult]

\* a table kept per session, empty for a session the client named itself
\* (faulty variant of ListTools)
ListToolsOfSession(v, sid) == IF sid \in GenIds THEN ToolTable(v) ELSE <<>>

\* tools/list and resources/list: the table of the server, whatever the session
ListTools(v, sid) == ToolTable(v)
ListResources(v, sid) == ResourceTable(v)

\* the response the transport writes for a message it handled
TransportResponse(v, sid, body) ==
  CASE body.method = "tools/list" ->
         [NoResp EXCEPT !.src = "transport", !.status = 200, !.fields = {"result"},
                        !.items = ListTools(v, sid)]
    [] body.method = "resources/list" ->
         [NoResp EXCEPT !.src = "transport", !.status = 200, !.fields = {"result"},
                        !.items = ListResources(v, sid)]
    [] OTHER ->
         LET r == CallTool(v, body.call, "")
         IN [NoResp EXCEPT !.src = "transport", !.status = 200,
                           !.fields = IF r.code \in {"ToolError", ""}
                                      THEN {"result"} ELSE {"error"},
                           !.res = r]

\* reply.status(500).send({ error: 'Internal MCP server error', message: ... })
Fallback500(e) ==
  [NoResp EXCEPT !.src = "catch", !.status = 500, !.fields = {"error", "message"},
                 !.error = "Internal MCP server error",
                 !.message = IF e.isError THEN e.message ELSE "Unknown error"]

\* a catch block that logs and sends nothing (faulty variant of CatchBlock)
CatchAndLogOnly(rq, e) == rq

\* how far the transport had written to reply.raw when handleRequest
\* rejected: nothing, the head and perhaps part of a stream (the response
\* not ended), or the whole response
Writes == {"nothing", "started", "ended"}

\* reply.status(..).send(body) on a reply that is not sent.  reply.sent tells
\* whether the response has ended; on a response the transport has started
\* on reply.raw the head cannot be written again (ERR_HTTP_HEADERS_SENT),
\* so the send is attempted and no body goes out.
SendFallback(rq, resp) ==
  IF rq.started
  THEN [rq EXCEPT !.fallback = TRUE]
  ELSE [rq EXCEPT !.sent = TRUE, !.fallback = TRUE, !.resp = resp]

\* catch (error) { log; if (!reply.sent) { reply.status(500).send(...) } }
CatchBlock(rq, e) ==
  IF ~rq.sent THEN SendFallback(rq, Fallback500(e)) ELSE rq

\* the stateless route has no try: the exception leaves the route and, when
\* the reply is not sent, reaches the function given to setErrorHandler
ErrorHandlerBasic(rq, e) ==
  IF ~rq.sent
  THEN LET statusCode == IF e.statusCode # 0 THEN e.statusCode ELSE 500
       IN SendFallback(rq,
            [NoResp EXCEPT !.src = "errorHandler", !.status = statusCode,
                           !.fields = {"error", "statusCode"},
                           !.error = IF e.message # "" THEN e.message
                                     ELSE "Internal Server Error"])
  ELSE rq

\* where a rejected await of the /mcp route ends
OnFailure(v, rq, e) ==
  IF v \in SessionVariants THEN CatchBlock(rq, e) ELSE ErrorHandlerBasic(rq, e)

IdleReq ==
  [pc |-> "idle", hdr |-> NoHdr, sessionId |-> "", gen |-> FALSE,
   transport |-> NoTransport, found |-> FALSE, body |-> NoBody,
   failed |-> "none", sent |-> FALSE, started |-> FALSE, fallback |-> FALSE,
   resp |-> NoResp]

\* The route handler has returned: its locals (sessionId, transport) are
\* gone, the reply and what became of the request remain.
Finished(rq) ==
  [IdleReq EXCEPT !.pc = "done", !.body = rq.body, !.failed = rq.failed,
                  !.sent = rq.sent, !.started = rq.started,
                  !.fallback = rq.fallback, !.resp = rq.resp]

EmptyMap == [x \in {} |-> NoTransport]

\* no resources/read under way
NoRead == [uri |-> "", kind |-> "none", mimeType |-> "", fields |-> {}, code |-> ""]

\* no REST request answered yet
NoCause == [class |-> "", message |-> "", statusCode |-> 0, details |-> <<>>]

NoRest ==
  [route |-> "", status |-> 0, fields |-> {}, sessions |-> 0, error |-> "",
   message |-> "", cause |-> NoCause]

\* the log lines `Created new MCP session: ${sessionId}`, counted per id
EmptyLog == [x \in {} |-> 0]

\* fastify.log.info(`Created new MCP session: ${sessionId}`)
LogInfo(l, id) ==
  [x \in (DOMAIN l) \cup {id} |->
     IF x = id THEN (IF id \in DOMAIN l THEN l[id] + 1 ELSE 1) ELSE l[x]]

---------------------------------------------------------------------------
(* The /mcp route *)

\* A request arrives and the route runs to its first await: the session id
\* is resolved and looked up; a transport found is given the request at
\* once, otherwise a transport is built and connect() is awaited.  The
\* stateless route builds a transport for every request.
McpArrive(r, h, p, g) ==
  /\ phase = "running"
  /\ req[r].pc = "idle"
  /\ LET sid == IF variant \in SessionVariants THEN SessionIdOf(h, p, g) ELSE ""
         t == IF variant \in SessionVariants THEN SessionsGet(sessions, sid)
              ELSE NoTransport
         rq == [IdleReq EXCEPT !.hdr = h, !.sessionId = sid,
                               !.gen = (variant \in SessionVariants /\ ~Truthy(h))]
     IN IF t # NoTransport
        THEN /\ req' = [req EXCEPT ![r] =
                          [rq EXCEPT !.pc = "handling", !.transport = t, !.found = TRUE]]
             /\ UNCHANGED created
        ELSE /\ created < MaxTransports
             /\ created' = created + 1
             /\ req' = [req EXCEPT ![r] =
                          [rq EXCEPT !.pc = "connecting", !.transport = created + 1]]
  /\ UNCHANGED <<variant, boot, val, read, rest, phase, sessions, log, call, tpc, trace, result>>

\* await mcpServer.connect(transport) resolves: the transport is stored, the
\* creation is logged and the request is given to the transport
ConnectResolve(r) ==
  /\ phase = "running"
  /\ req[r].pc = "connecting"
  /\ IF variant \in SessionVariants
     THEN /\ sessions' = SessionsSet(sessions, req[r].sessionId, req[r].transport)
          /\ log' = LogInfo(log, req[r].sessionId)
     ELSE UNCHANGED <<sessions, log>>
  /\ req' = [req EXCEPT ![r].pc = "handling"]
  /\ UNCHANGED <<variant, boot, val, read, rest, phase, created, call, tpc, trace, result>>

\* a handler that stores the transport although its connect failed (faulty
\* variant of ConnectReject)
ConnectRejectStores(r, e) ==
  /\ phase = "running"
  /\ req[r].pc = "connecting"
  /\ variant \in SessionVariants
  /\ sessions' = SessionsSet(sessions, req[r].sessionId, req[r].transport)
  /\ req' = [req EXCEPT ![r] =
               Finished(OnFailure(variant, [req[r] EXCEPT !.failed = "connect"], e))]
  /\ UNCHANGED <<variant, boot, val, read, rest, phase, created, log, call, tpc, trace,
                 result>>

\* await mcpServer.connect(transport) rejects with e
ConnectReject(r, e) ==
  /\ phase = "running"
  /\ req[r].pc = "connecting"
  /\ req' = [req EXCEPT ![r] =
               Finished(OnFailure(variant, [req[r] EXCEPT !.failed = "connect"], e))]
  /\ UNCHANGED <<variant, boot, val, read, rest, phase, sessions, created, log, call, tpc, trace, result>>

\* await transport.handleRequest(request.raw, reply.raw, request.body)
\* resolves: the transport wrote the response to the message b.  The route
\* only passes request.body on, so the message is drawn here, where it is read.
HandleResolve(r, b) ==
  /\ phase = "running"
  /\ req[r].pc = "handling"
  /\ req' = [req EXCEPT ![r] =
               Finished([req[r] EXCEPT !.sent = TRUE, !.body = b,
                           !.resp = TransportResponse(variant, req[r].sessionId, b)])]
  /\ UNCHANGED <<variant, boot, val, read, rest, phase, sessions, created, log, call, tpc, trace, result>>

\* await transport.handleRequest(...) rejects with e, the transport having
\* written nothing, the start of its response, or all of it
HandleReject(r, b, e, wrote) ==
  /\ phase = "running"
  /\ req[r].pc = "handling"
  /\ LET rq == CASE wrote = "ended" ->
                    [req[r] EXCEPT !.failed = "handle", !.sent = TRUE, !.body = b,
                       !.resp = TransportResponse(variant, req[r].sessionId, b)]
                 [] wrote = "started" ->
                    [req[r] EXCEPT !.failed = "handle", !.started = TRUE]
                 [] OTHER -> [req[r] EXCEPT !.failed = "handle"]
     IN req' = [req EXCEPT ![r] = Finished(OnFailure(variant, rq, e))]
  /\ UNCHANGED <<variant, boot, val, read, rest, phase, sessions, created, log, call, tpc, trace, result>>

\* the exchange is over; the slot takes the next request
McpNext(r) ==
  /\ phase = "running"
  /\ req[r].pc = "done"
  /\ req' = [req EXCEPT ![r] = IdleReq]
  /\ UNCHANGED <<variant, boot, val, read, rest, phase, sessions, created, log, call, tpc, trace, result>>

Signals == {"SIGINT", "SIGTERM"}

\* fastify.addHook('onClose', ...): sessions.clear().  The hook runs when
\* fastify.close() is called; no file of the repository calls it.
OnCloseHook(m) == EmptyMap

\* a request that was in flight when the process exited, and one that was not
Aborted == [IdleReq EXCEPT !.pc = "aborted"]
Closed == [IdleReq EXCEPT !.pc = "closed"]

\* process.on(signal, () => gracefulShutdown(signal)): the message is
\* printed and process.exit(0) ends the process at once.  Requests waiting
\* at an await are never resumed; the registry is left as it was.
Signal(sig) ==
  /\ phase = "running"
  /\ phase' = "exited"
  /\ req' = [r \in Req |->
               IF req[r].pc \in {"connecting", "handling"} THEN Aborted ELSE Closed]
  /\ UNCHANGED <<variant, boot, val, read, rest, sessions, created, log, call, tpc, trace, result>>

---------------------------------------------------------------------------
(* The validation helpers: validateToolArgs and validateAndThrow *)

\* one element of ZodError.errors
Issue(path, message) == [path |-> path, message |-> message]

\* z.number().min(-max, msg).max(max, msg) applied to the field `path`
NumberIssues(path, x, max, msg) ==
  IF x.t = "undefined" THEN <<Issue(path, "Required")>>
  ELSE IF ~IsNumber(x) THEN <<Issue(path, "Expected number, received " \o x.t)>>
  ELSE IF x.n < -max \/ x.n > max THEN <<Issue(path, msg)>>
  ELSE <<>>

\* the issues WeatherForecastSchema finds: every failing field is reported
ForecastIssues(lat, lng) ==
  NumberIssues("latitude", lat, LatMax, "Latitude must be between -90 and 90")
    \o NumberIssues("longitude", lng, LonMax, "Longitude must be between -180 and 180")

NoError == [class |-> "", message |-> "", details |-> <<>>]

NoData == [latitude |-> Undef, longitude |-> Undef]

\* schema.parse(args): the parsed data, or the error it throws.  A schema
\* argument that is no Zod schema makes the call itself throw a TypeError.
SchemaParse(schema, lat, lng) ==
  IF schema # "WeatherForecastSchema"
  THEN [kind |-> "throw", data |-> NoData,
        error |-> [class |-> "TypeError", message |-> "schema.parse is not a function",
                   details |-> <<>>]]
  ELSE IF ForecastIssues(lat, lng) = <<>>
  THEN [kind |-> "return", data |-> [latitude |-> lat, longitude |-> lng],
        error |-> NoError]
  ELSE [kind |-> "throw", data |-> NoData,
        error |-> [class |-> "ZodError", message |-> "",
                   details |-> ForecastIssues(lat, lng)]]

\* error.errors.map(err => `${err.path.join('.')}: ${err.message}`).join(', ')
RECURSIVE JoinIssues(_)
JoinIssues(issues) ==
  IF issues = <<>> THEN ""
  ELSE issues[1].path \o ": " \o issues[1].message
       \o (IF Len(issues) > 1 THEN ", " \o JoinIssues(Tail(issues)) ELSE "")

\* a helper that reports the first issue only (faulty variant of
\* ValidateToolArgsOutcome)
ValidateFirstIssueOnly(parsed) ==
  IF parsed.kind = "throw" /\ parsed.error.class = "ZodError"
  THEN [parsed EXCEPT !.error =
          [class |-> "Error",
           message |-> "Validation failed: " \o JoinIssues(<<parsed.error.details[1]>>),
           details |-> <<>>]]
  ELSE parsed

\* validateToolArgs, given what schema.parse did: the data is returned, a
\* ZodError becomes Error(`Validation failed: ...`), anything else is
\* thrown on as it is
ValidateToolArgsOutcome(parsed) ==
  IF parsed.kind = "throw" /\ parsed.error.class = "ZodError"
  THEN [parsed EXCEPT !.error =
          [class |-> "Error",
           message |-> "Validation failed: " \o JoinIssues(parsed.error.details),
           details |-> <<>>]]
  ELSE parsed

\* validateAndThrow(data, schema, message = 'Validation failed'), given what
\* schema.parse did: a ZodError becomes ValidationError(message, error.errors)
validateAndThrow(parsed, message) ==
  IF parsed.kind = "throw" /\ parsed.error.class = "ZodError"
  THEN [parsed EXCEPT !.error =
          [class |-> "ValidationError", message |-> message,
           details |-> parsed.error.details]]
  ELSE parsed

\* no helper called yet
NoVal ==
  [helper |-> "", schema |-> "", lat |-> Undef, lng |-> Undef,
   out |-> [kind |-> "none", data |-> NoData, error |-> NoError]]

\* the server files that end with the isStdioMode test; the three older
\* files call startServer() whatever the command line
StdioVariants == {"main", "zod"}

\* values of process.env.MCP_STDIO, "" when it is not set
EnvValues == {"", "true", "false", "TRUE"}

\* process.argv.includes('--stdio') || process.env['MCP_STDIO'] === 'true'
\* (stdioArg: the command line has the element --stdio)
IsStdioEnvTruthy(stdioArg, env) == stdioArg \/ env # ""

isStdioMode(stdioArg, env) == stdioArg \/ env = "true"

\* a process before its module body has run
Unstarted(stdioArg, env) ==
  [stdioArg |-> stdioArg, env |-> env, mode |-> "none", stdio |-> FALSE,
   listener |-> FALSE, registry |-> FALSE]

\* a process started without --stdio and without MCP_STDIO, listening
HttpBooted ==
  [Unstarted(FALSE, "") EXCEPT !.mode = "http", !.listener = TRUE, !.registry = TRUE]

Init ==
  /\ variant \in Variants
  /\ boot = HttpBooted
  /\ val = NoVal
  /\ sessions = EmptyMap
  /\ created = 0
  /\ log = EmptyLog
  /\ req = [r \in Req |-> IdleReq]
  /\ call = NoCall
  /\ tpc = "idle"
  /\ trace = <<>>
  /\ result = NoResult
  /\ read = NoRead
  /\ rest = NoRest
  /\ phase = "running"

Next ==
  \/ \E r \in Req, h \in Headers, p \in ParamIds :
        \E g \in Generated(h) : McpArrive(r, h, p, g)
  \/ \E r \in Req : ConnectResolve(r)
  \/ \E r \in Req, e \in Errors : ConnectReject(r, e)
  \/ \E r \in Req, b \in Bodies : HandleResolve(r, b)
  \/ \E r \in Req, b \in Bodies, e \in Errors, wrote \in Writes :
        HandleReject(r, b, e, wrote)
  \/ \E r \in Req : McpNext(r)
  \/ \E sig \in Signals : Signal(sig)

Spec == Init /\ [][Next]_vars

\* the promise a request is suspended on settles: await connect() or
\* await handleRequest() resolves or rejects, and the handler runs on
Settle(r) ==
  \/ ConnectResolve(r)
  \/ \E e \in Errors : ConnectReject(r, e)
  \/ \E b \in Bodies : HandleResolve(r, b)
  \/ \E b \in Bodies, e \in Errors, wrote \in Writes : HandleReject(r, b, e, wrote)

\* the event loop runs every continuation that is ready
SpecFair == Spec /\ \A r \in Req : WF_vars(Settle(r))

---------------------------------------------------------------------------
(* The REST routes and the Fastify error handler *)

Reply(route, status, fields, message) ==
  [route |-> route, status |-> status, fields |-> fields, sessions |-> 0,
   error |-> "", message |-> message, cause |-> NoCause]

\* GET /health: the size of the registry is reported where there is one
HealthReply(v, m) ==
  IF v = "basic"
  THEN Reply("/health", 200, {"status", "timestamp", "server", "version"}, "ok")
  ELSE [Reply("/health", 200,
              {"status", "timestamp", "server", "version", "uptime", "sessions",
               "capabilities"}, "ok")
          EXCEPT !.sessions = Cardinality(DOMAIN m)]

\* GET /info
InfoReply ==
  Reply("/info", 200,
        {"name", "version", "description", "endpoints", "capabilities",
         "transport", "sdkVersion"}, "")

\* GET /hello/:name
HelloReply(name) == Reply("/hello/:name", 200, {"greeting"}, "Hi, " \o name \o "!")

\* the function given to setErrorHandler: the reply to a request Fastify
\* rejected, or whose handler threw
ErrorHandlerReply(v, e) ==
  [Reply("errorHandler",
         IF e.statusCode # 0 THEN e.statusCode ELSE 500,
         IF v = "basic" THEN {"error", "statusCode"}
         ELSE {"error", "statusCode", "timestamp"},
         "")
     EXCEPT !.error = IF e.message # "" THEN e.message ELSE "Internal Server Error"]

\* error.message.includes('MCP')
IncludesMCP(m) == \E i \in 1..Len(m) : i + 2 <= Len(m) /\ SubSeq(m, i, i + 2) = "MCP"

\* the keys JSON.stringify keeps: a key whose value is undefined is dropped
Defined(keys, details) == IF details = <<>> THEN keys \ {"details"} ELSE keys

\* the last branch of handleError
DefaultBranch(e, dev) ==
  [Reply("handleError",
         IF e.statusCode # 0 THEN e.statusCode ELSE 500,
         {"error", "statusCode", "timestamp"} \cup (IF dev THEN {"stack"} ELSE {}),
         "")
     EXCEPT !.error = IF e.message # "" THEN e.message ELSE "Internal Server Error",
            !.cause = e]

\* handleError without its instanceof tests (faulty variant of handleError)
handleErrorDefaultOnly(e, dev) == DefaultBranch(e, dev)

\* handleError of errorHandler.ts: the first test that matches returns; dev
\* is process.env.NODE_ENV === 'development'
handleError(e, dev) ==
  CASE e.class = "ZodError" ->
         [Reply("handleError", 400,
                Defined({"error", "message", "details", "statusCode", "timestamp"},
                        e.details),
                "Invalid request data")
            EXCEPT !.error = "Validation Error", !.cause = e]
    [] e.class \in {"ValidationError", "MCPError"} ->
         [Reply("handleError", e.statusCode,
                Defined({"error", "message", "details", "statusCode", "timestamp"},
                        e.details),
                e.message)
            EXCEPT !.error = e.class, !.cause = e]
    [] e.class = "Error" /\ IncludesMCP(e.message) ->
         [Reply("handleError", 500,
                {"error", "message", "statusCode", "timestamp"}, e.message)
            EXCEPT !.error = "MCP Server Error", !.cause = e]
    [] OTHER -> DefaultBranch(e, dev)

\* errors given to handleError, as the repository builds them: a ZodError of
\* schema.parse, the ValidationError of validateAndThrow (with the issues of
\* the ZodError), an MCPError, and errors of createError and of Fastify
AppErrors ==
  { [class |-> "ZodError", message |-> "Required", statusCode |-> 0,
     details |-> <<"name">>],
    [class |-> "ValidationError", message |-> "Validation failed", statusCode |-> 400,
     details |-> <<"latitude", "longitude">>],
    [class |-> "ValidationError", message |-> "MCP arguments invalid",
     statusCode |-> 400, details |-> <<"name">>],
    [class |-> "MCPError", message |-> "Transport closed", statusCode |-> 500,
     details |-> <<>>],
    [class |-> "Error", message |-> "No MCP session", statusCode |-> 404,
     details |-> <<>>],
    [class |-> "Error", message |-> "Not Found", statusCode |-> 404, details |-> <<>>],
    [class |-> "Error", message |-> "boom", statusCode |-> 0, details |-> <<>>],
    [class |-> "Error", message |-> "", statusCode |-> 0, details |-> <<>>] }

\* the error Fastify raises when a request fails the JSON schema of its route
SchemaError == [isError |-> TRUE, message |-> "Bad Request", statusCode |-> 400]

\* schema.querystring of /weather/forecast and schema.params of
\* /weather/alerts/:state
ForecastQuerySchema(lat, lng) ==
  /\ IsNumber(lat) /\ lat.n >= -LatMax /\ lat.n <= LatMax
  /\ IsNumber(lng) /\ lng.n >= -LonMax /\ lng.n <= LonMax

AlertsParamsSchema(state) == IsString(state) /\ state.s \in UpperPairs

\* GET /weather/forecast of weatherPlugin: Fastify applies the route schema,
\* the handler applies the tool's schema again and answers its failure
\* with status 400
ForecastReply(v, lat, lng, api) ==
  IF ~ForecastQuerySchema(lat, lng) THEN ErrorHandlerReply(v, SchemaError)
  ELSE IF LatitudeSchema(lat) /\ LongitudeSchema(lng)
  THEN Reply("/weather/forecast", 200, {"forecast", "coordinates", "timestamp"}, api)
  ELSE Reply("/weather/forecast", 400, {"error", "message"}, "Validation failed")

\* GET /weather/alerts/:state of weatherPlugin
AlertsReply(v, state, api) ==
  IF ~AlertsParamsSchema(state) THEN ErrorHandlerReply(v, SchemaError)
  ELSE IF StateSchema(state)
  THEN Reply("/weather/alerts/:state", 200, {"alerts", "state", "timestamp"}, api)
  ELSE Reply("/weather/alerts/:state", 400, {"error", "message"}, "Validation failed")

\* errors Fastify raises before a route handler runs: a body that is no
\* JSON (status 400), and an error that carries neither status nor message
FastifyErrors ==
  { [isError |-> TRUE, message |-> "Body is not valid JSON", statusCode |-> 400],
    [isError |-> TRUE, message |-> "", statusCode |-> 0] }

Health ==
  /\ phase = "running"
  /\ rest' = HealthReply(variant, sessions)
  /\ UNCHANGED <<variant, boot, val, read, phase, sessions, created, log, req,
                 call, tpc, trace, result>>

Info ==
  /\ phase = "running"
  /\ variant \in SessionVariants
  /\ rest' = InfoReply
  /\ UNCHANGED <<variant, boot, val, read, phase, sessions, created, log, req,
                 call, tpc, trace, result>>

Hello(name) ==
  /\ phase = "running"
  /\ rest' = HelloReply(name)
  /\ UNCHANGED <<variant, boot, val, read, phase, sessions, created, log, req,
                 call, tpc, trace, result>>

\* a request is refused by Fastify and answered by the error handler
RequestError(e) ==
  /\ phase = "running"
  /\ rest' = ErrorHandlerReply(variant, e)
  /\ UNCHANGED <<variant, boot, val, read, phase, sessions, created, log, req,
                 call, tpc, trace, result>>

\* handleError answers a failed request, in a server that installs it
\* with setErrorHandler
HandleErrorCall(e, dev) ==
  /\ phase = "running"
  /\ rest' = handleError(e, dev)
  /\ UNCHANGED <<variant, boot, val, read, phase, sessions, created, log, req,
                 call, tpc, trace, result>>

\* the two routes of weatherPlugin, for a server that registers the plugin
\* (part_000 imports it)
WeatherForecastRest(lat, lng, api) ==
  /\ phase = "running"
  /\ variant = "zod"
  /\ rest' = ForecastReply(variant, lat, lng, api)
  /\ UNCHANGED <<variant, boot, val, read, phase, sessions, created, log, req,
                 call, tpc, trace, result>>

WeatherAlertsRest(state, api) ==
  /\ phase = "running"
  /\ variant = "zod"
  /\ rest' = AlertsReply(variant, state, api)
  /\ UNCHANGED <<variant, boot, val, read, phase, sessions, created, log, req,
                 call, tpc, trace, result>>


---------------------------------------------------------------------------
(* One tools/call, stage by stage *)

RECURSIVE Repeat(_, _)
Repeat(ch, n) == IF n = 0 THEN "" ELSE ch \o Repeat(ch, n - 1)

Numbers == {Num(n) : n \in -MaxNum..MaxNum}

\* what a client can put where a number is expected
Values == Numbers \cup {Str("x"), Undef}

OperationValues ==
  {Str("add"), Str("subtract"), Str("multiply"), Str("divide"), Str("power"), Undef}

NameValues ==
  {Undef, Num(1), Str(""), Str("Ada"),
   Str(Repeat("n", NameMaxLen)), Str(Repeat("n", NameMaxLen + 1))}

LatitudeValues == {Num(0), Num(-LatMax), Num(LatMax + 1), Str("x"), Undef}
LongitudeValues == {Num(0), Num(LonMax), Num(-LonMax - 1), Undef}
StateValues == {Str("CA"), Str("ca"), Str("CAL"), Str(""), Num(1), Undef}

\* the text simulateWeatherAPI or simulateAlertsAPI resolves with: it is
\* built from Math.random() and the clock
ApiTexts == {"Sunny 20C", "Rainy 18C"}

\* the tools/call messages given to the server
Calls ==
  {CalcCall(op, a, b) : op \in OperationValues, a \in Values, b \in Values}
  \cup {[name |-> "sayHello", hasArgs |-> TRUE, args |-> [NoArgs EXCEPT !.name = n]] :
          n \in NameValues}
  \cup {[name |-> "getWeatherForecast", hasArgs |-> TRUE,
         args |-> [NoArgs EXCEPT !.latitude = la, !.longitude = lo]] :
          la \in LatitudeValues, lo \in LongitudeValues}
  \cup {[name |-> "getWeatherAlerts", hasArgs |-> TRUE,
         args |-> [NoArgs EXCEPT !.state = st]] : st \in StateValues}
  \cup {[name |-> n, hasArgs |-> FALSE, args |-> NoArgs] :
          n \in {"sayHello", "calculate", "getWeatherForecast", "getWeatherAlerts",
                 "nonExistentTool"}}
  \cup {[name |-> "nonExistentTool", hasArgs |-> TRUE, args |-> NoArgs]}

\* a tools/call message reaches the server
ToolReceive(c) ==
  /\ tpc = "idle"
  /\ read = NoRead
  /\ call' = c
  /\ tpc' = "received"
  /\ trace' = <<>>
  /\ result' = NoResult
  /\ UNCHANGED <<variant, boot, val, read, rest, phase, sessions, created, log, req>>

\* the tool is looked up by name
ToolLookup ==
  /\ tpc = "received"
  /\ LET l == LookupStep(variant, call)
     IN IF l = NoResult
        THEN /\ tpc' = "found"
             /\ UNCHANGED result
        ELSE /\ tpc' = "done"
             /\ result' = l
  /\ UNCHANGED <<variant, boot, val, read, rest, phase, sessions, created, log, req, call, trace>>

\* the arguments are checked
ToolValidate ==
  /\ tpc = "found"
  /\ trace' = Append(trace, "validate")
  /\ LET w == ValidateStep(variant, call)
     IN IF w = NoResult
        THEN /\ tpc' = "validated"
             /\ UNCHANGED result
        ELSE /\ tpc' = "done"
             /\ result' = w
  /\ UNCHANGED <<variant, boot, val, read, rest, phase, sessions, created, log, req, call>>

\* the callback runs to its return, its throw or its await
ToolBody ==
  /\ tpc = "validated"
  /\ LET b == BodyStep(variant, call)
     IN /\ trace' = trace \o b.events
        /\ IF b.wait
           THEN /\ tpc' = "awaiting"
                /\ UNCHANGED result
           ELSE /\ tpc' = "done"
                /\ result' = b.res
  /\ UNCHANGED <<variant, boot, val, read, rest, phase, sessions, created, log, req, call>>

\* the awaited simulated API call resolves with `api` and the callback
\* returns
ToolResume(api) ==
  /\ tpc = "awaiting"
  /\ tpc' = "done"
  /\ result' = ResumeStep(variant, call, api)
  /\ trace' = trace \o <<api, "return">>
  /\ UNCHANGED <<variant, boot, val, read, rest, phase, sessions, created, log, req, call>>

\* the answer has been sent; the server takes the next message
ToolNext ==
  /\ tpc = "done"
  /\ tpc' = "idle"
  /\ call' = NoCall
  /\ trace' = <<>>
  /\ result' = NoResult
  /\ UNCHANGED <<variant, boot, val, read, rest, phase, sessions, created, log, req>>

\* the keys of the object given to JSON.stringify for mcp://server-info
ServerInfoFields(v) ==
  {"name", "version", "description", "capabilities", "author", "created"}
    \cup (IF v \in {"zod", "sdk"} THEN {"transport", "tools"} ELSE {})
    \cup (IF v = "zod" THEN {"validation"} ELSE {})

\* resources/read: the callback registered for the uri, or the answer for a
\* uri that has none
ReadResource(v, uri) ==
  IF uri \in Range(ResourceTable(v))
  THEN IF uri = "mcp://server-info"
       THEN [uri |-> uri, kind |-> "success", mimeType |-> "application/json",
             fields |-> ServerInfoFields(v), code |-> ""]
       ELSE [uri |-> uri, kind |-> "success", mimeType |-> "text/plain",
             fields |-> {}, code |-> ""]
  ELSE [uri |-> uri, kind |-> "error", mimeType |-> "", fields |-> {},
        code |-> IF v = "handlers" THEN "InternalError" ELSE "NotFound"]

\* the uris clients ask for
Uris == {"mcp://server-info", "mcp://hello-message", "hello://static", "mcp://missing"}

\* a resources/read message is received and answered
ResourceRead(uri) ==
  /\ tpc = "idle"
  /\ read = NoRead
  /\ read' = ReadResource(variant, uri)
  /\ UNCHANGED <<variant, boot, val, rest, phase, sessions, created, log, req,
                 call, tpc, trace, result>>

\* the answer has been sent; the server takes the next message
ReadNext ==
  /\ read # NoRead
  /\ read' = NoRead
  /\ UNCHANGED <<variant, boot, val, rest, phase, sessions, created, log, req,
                 call, tpc, trace, result>>

NextTools ==
  \/ \E uri \in Uris : ResourceRead(uri)
  \/ ReadNext
  \/ \E c \in Calls : ToolReceive(c)
  \/ ToolLookup
  \/ ToolValidate
  \/ ToolBody
  \/ \E api \in ApiTexts : ToolResume(api)
  \/ ToolNext

SpecTools == Init /\ [][NextTools]_vars

\* the REST routes next to /mcp requests that follow one another
RestReq == {"r1"}

NextRest ==
  \/ Health
  \/ Info
  \/ \E name \in {"Ada", "Bo"} : Hello(name)
  \/ \E e \in FastifyErrors : RequestError(e)
  \/ \E e \in AppErrors, dev \in BOOLEAN : HandleErrorCall(e, dev)
  \/ \E lat \in LatitudeValues, lng \in LongitudeValues, api \in ApiTexts :
        WeatherForecastRest(lat, lng, api)
  \/ \E state \in StateValues, api \in ApiTexts : WeatherAlertsRest(state, api)
  \/ \E r \in RestReq, h \in Headers, p \in ParamIds :
        \E g \in Generated(h) : McpArrive(r, h, p, g)
  \/ \E r \in RestReq : ConnectResolve(r)
  \/ \E r \in RestReq, e \in Errors : ConnectReject(r, e)
  \/ \E r \in RestReq, b \in Bodies : HandleResolve(r, b)
  \/ \E r \in RestReq, b \in Bodies, e \in Errors, wrote \in Writes :
        HandleReject(r, b, e, wrote)
  \/ \E r \in RestReq : McpNext(r)
  \/ \E sig \in Signals : Signal(sig)

SpecRest == Init /\ [][NextRest]_vars

---------------------------------------------------------------------------
(* Startup: the module body of the server file *)

InitStart ==
  /\ variant \in Variants
  /\ \E stdioArg \in BOOLEAN, env \in EnvValues : boot = Unstarted(stdioArg, env)
  /\ phase = "starting"
  /\ val = NoVal
  /\ sessions = EmptyMap
  /\ created = 0
  /\ log = EmptyLog
  /\ req = [r \in Req |-> IdleReq]
  /\ call = NoCall
  /\ tpc = "idle"
  /\ trace = <<>>
  /\ result = NoResult
  /\ read = NoRead
  /\ rest = NoRest

\* the module body runs: in STDIO mode createMCPServer(), new
\* StdioServerTransport() and mcpServer.connect(transport) are called,
\* otherwise startServer() is
SelectMode ==
  /\ phase = "starting"
  /\ IF variant \in StdioVariants /\ isStdioMode(boot.stdioArg, boot.env)
     THEN /\ boot' = [boot EXCEPT !.mode = "stdio"]
          /\ phase' = "stdioConnecting"
     ELSE /\ boot' = [boot EXCEPT !.mode = "http"]
          /\ phase' = "httpSetup"
  /\ UNCHANGED <<variant, val, read, rest, sessions, created, log, req, call, tpc,
                 trace, result>>

\* mcpServer.connect(stdio transport) resolves
StdioConnected ==
  /\ phase = "stdioConnecting"
  /\ boot' = [boot EXCEPT !.stdio = TRUE]
  /\ phase' = "stdio"
  /\ UNCHANGED <<variant, val, read, rest, sessions, created, log, req, call, tpc,
                 trace, result>>

\* mcpServer.connect(stdio transport) rejects: .catch -> process.exit(1)
StdioFailed ==
  /\ phase = "stdioConnecting"
  /\ phase' = "exited"
  /\ UNCHANGED <<variant, boot, val, read, rest, sessions, created, log, req, call,
                 tpc, trace, result>>

\* startServer up to fastify.listen: plugins registered, createMCPServer(),
\* new Map() for the sessions (not in the stateless file), routes added
StartServerSetup ==
  /\ phase = "httpSetup"
  /\ boot' = [boot EXCEPT !.registry = (variant \in SessionVariants)]
  /\ sessions' = EmptyMap
  /\ phase' = "httpListening"
  /\ UNCHANGED <<variant, val, read, rest, created, log, req, call, tpc, trace, result>>

\* await fastify.listen(...) resolves
ListenResolve ==
  /\ phase = "httpListening"
  /\ boot' = [boot EXCEPT !.listener = TRUE]
  /\ phase' = "running"
  /\ UNCHANGED <<variant, val, read, rest, sessions, created, log, req, call, tpc,
                 trace, result>>

\* a plugin registration or fastify.listen rejects: process.exit(1)
StartFailed ==
  /\ phase \in {"httpSetup", "httpListening"}
  /\ phase' = "exited"
  /\ UNCHANGED <<variant, boot, val, read, rest, sessions, created, log, req, call,
                 tpc, trace, result>>

NextStart ==
  \/ SelectMode
  \/ StdioConnected
  \/ StdioFailed
  \/ StartServerSetup
  \/ ListenResolve
  \/ StartFailed
  \/ Health
  \/ \E sig \in Signals : Signal(sig)

SpecStart == InitStart /\ [][NextStart]_vars

---------------------------------------------------------------------------
(* Calls of the validation helpers *)

Schemas == {"WeatherForecastSchema", "undefined"}

\* validateToolArgs(schema, {latitude: lat, longitude: lng})
CallValidateToolArgs(schema, lat, lng) ==
  /\ phase = "running"
  /\ val' = [helper |-> "validateToolArgs", schema |-> schema, lat |-> lat, lng |-> lng,
             out |-> ValidateToolArgsOutcome(SchemaParse(schema, lat, lng))]
  /\ UNCHANGED <<variant, boot, read, rest, phase, sessions, created, log, req,
                 call, tpc, trace, result>>

\* validateAndThrow({latitude: lat, longitude: lng}, schema)
CallValidateAndThrow(schema, lat, lng) ==
  /\ phase = "running"
  /\ val' = [helper |-> "validateAndThrow", schema |-> schema, lat |-> lat, lng |-> lng,
             out |-> validateAndThrow(SchemaParse(schema, lat, lng), "Validation failed")]
  /\ UNCHANGED <<variant, boot, read, rest, phase, sessions, created, log, req,
                 call, tpc, trace, result>>

NextValidate ==
  \/ \E schema \in Schemas, lat \in LatitudeValues, lng \in LongitudeValues :
        CallValidateToolArgs(schema, lat, lng)
  \/ \E schema \in Schemas, lat \in LatitudeValues, lng \in LongitudeValues :
        CallValidateAndThrow(schema, lat, lng)

SpecValidate == Init /\ [][NextValidate]_vars

\* GET /health while /mcp requests are in flight
NextHealth ==
  \/ Health
  \/ \E r \in Req, h \in Headers, p \in ParamIds :
        \E g \in Generated(h) : McpArrive(r, h, p, g)
  \/ \E r \in Req : ConnectResolve(r)
  \/ \E r \in Req, e \in Errors : ConnectReject(r, e)
  \/ \E r \in Req, b \in Bodies : HandleResolve(r, b)
  \/ \E r \in Req, b \in Bodies, e \in Errors, wrote \in Writes :
        HandleReject(r, b, e, wrote)
  \/ \E r \in Req : McpNext(r)

SpecHealth == Init /\ [][NextHealth]_vars

---------------------------------------------------------------------------
(* Properties of a tools/call (SpecTools) *)

\* the statements that are a tool's work
WorkEvents ==
  {"greet", "add", "subtract", "multiply", "divide",
   "simulateWeatherAPI", "simulateAlertsAPI"}

Worked == \E i \in DOMAIN trace : trace[i] \in WorkEvents

\* the input contract of the tool named by c, in the file v
MeetsContract(v, c) ==
  CASE c.name = "sayHello" ->
         (CASE v \in {"main", "zod"} -> SayHelloSchema(c)
            [] v = "basic" -> BasicNameSchema(c)
            [] OTHER -> c.hasArgs /\ IsString(c.args.name) /\ c.args.name.s # "")
    [] c.name = "calculate" ->
         (IF v = "zod" THEN CalculateSchema(c) ELSE CalculateShape(c))
    [] c.name = "getWeatherForecast" -> WeatherForecastSchema(c)
    [] c.name = "getWeatherAlerts" -> WeatherAlertsSchema(c)
    [] OTHER -> FALSE

\* C6: within one tools/call the arguments are checked before any work of
\* the handler: work is done only after the validation and only on arguments
\* that meet the tool's input contract, and a call whose arguments violate
\* the contract ends in an error without any work having been done.
C6_ValidationBeforeWork ==
  /\ Worked => (trace[1] = "validate" /\ MeetsContract(variant, call))
  /\ (tpc = "done" /\ Registered(variant, call.name) /\ ~MeetsContract(variant, call))
       => (result.kind = "error" /\ ~Worked)

\* a forecast asked for latitude 91 was refused after the validation alone
C6_Witness ==
  /\ tpc = "done"
  /\ call.name = "getWeatherForecast"
  /\ call.args.latitude = Num(LatMax + 1)
  /\ trace = <<"validate">>
  /\ result.kind = "error"

DivideByZero(c) ==
  /\ c.name = "calculate"
  /\ c.hasArgs
  /\ c.args.operation = Str("divide")
  /\ c.args.b = Num(0)

\* C7: for every a, calculate with operation 'divide' and b = 0 never gives
\* a success result: the call ends in an error value and the division is
\* never evaluated.
C7_NoDivisionByZero ==
  DivideByZero(call) =>
    /\ \A i \in DOMAIN trace : trace[i] # "divide"
    /\ result.kind # "success"
    /\ tpc = "done" => result.kind = "error"

\* 1 / 0 was asked of server.ts and refused by the handler's own guard
C7_Witness ==
  /\ variant = "main"
  /\ tpc = "done"
  /\ DivideByZero(call)
  /\ call.args.a = Num(1)
  /\ result.kind = "error"
  /\ result.message = "Division by zero is not allowed"

\* C8: a tools/call naming a tool that is not registered ends in a not-found
\* error, never in an internal error, and no handler is invoked.
C8_UnknownToolNotFound ==
  (tpc = "done" /\ ~Registered(variant, call.name)) =>
    /\ result.kind = "error"
    /\ result.code = "NotFound"
    /\ result.code # "InternalError"
    /\ ~Worked

ValidCalculation(c) ==
  /\ c.name = "calculate"
  /\ c.hasArgs
  /\ IsString(c.args.operation) /\ c.args.operation.s \in Operations
  /\ IsNumber(c.args.a)
  /\ IsNumber(c.args.b)
  /\ ~(c.args.operation.s = "divide" /\ c.args.b.n = 0)

\* '<a> <operation> <b> = ' followed by r, where r is a+b, a-b, a*b, or the
\* number q with q*b = a
IsCalculateText(text, op, a, b) ==
  LET prefix == ToString(a) \o " " \o op \o " " \o ToString(b) \o " = "
  IN CASE op = "add" -> text = prefix \o ToString(a + b)
       [] op = "subtract" -> text = prefix \o ToString(a - b)
       [] op = "multiply" -> text = prefix \o ToString(a * b)
       [] op = "divide" ->
            \E n \in -MaxNum..MaxNum, d \in 1..MaxNum :
               /\ n * b = a * d
               /\ text = prefix \o (IF d = 1 THEN ToString(n)
                                    ELSE ToString(n) \o "/" \o ToString(d))

\* C9: for every operation of {add, subtract, multiply, divide} and all
\* numbers a, b (b # 0 for divide) the calculate tool returns a success
\* result whose text is '<a> <operation> <b> = <r>', r being a+b, a-b, a*b or
\* a/b: the same text in every file that registers the tool.
C9_CalculateResult ==
  (tpc = "done" /\ Registered(variant, "calculate") /\ ValidCalculation(call)) =>
    /\ result.kind = "success"
    /\ IsCalculateText(result.text, call.args.operation.s,
                       call.args.a.n, call.args.b.n)

\* 2 / -1 was computed
C9_Witness ==
  /\ tpc = "done"
  /\ call = CalcCall(Str("divide"), Num(2), Num(-1))
  /\ result = Success("2 divide -1 = -2")

---------------------------------------------------------------------------
(* Properties of the /mcp route (Spec) *)

Handling(r) == req[r].pc = "handling"

\* C1: two requests that carry the same non-empty Mcp-Session-Id are served
\* by the same transport: the later one finds the transport the earlier one
\* stored and no second transport is built for the identifier.
C1_SameIdSameTransport ==
  \A r1, r2 \in Req :
    (/\ r1 # r2
     /\ Handling(r1) /\ Handling(r2)
     /\ Truthy(req[r1].hdr)
     /\ req[r1].hdr = req[r2].hdr)
      => req[r1].transport = req[r2].transport

\* The part of C1 that the code keeps: a request arriving with an identifier
\* that is in the map is given the stored transport, and none is built.
StoredIdIsReused ==
  [][\A r \in Req :
       (/\ req[r].pc = "idle" /\ req'[r].pc # "idle"
        /\ Truthy(req'[r].hdr)
        /\ req'[r].hdr \in DOMAIN sessions)
         => (/\ req'[r].pc = "handling"
             /\ req'[r].found
             /\ req'[r].transport = sessions[req'[r].hdr]
             /\ created' = created
             /\ sessions' = sessions)]_vars

\* C2: two requests without a session identifier yield two distinct
\* sessions: each has its own generated identifier and its own transport,
\* and both identifiers are keys of the registry.
C2_DistinctSessions ==
  \A r1, r2 \in Req :
    (/\ r1 # r2
     /\ Handling(r1) /\ Handling(r2)
     /\ req[r1].hdr = NoHdr /\ req[r2].hdr = NoHdr
     /\ variant \in SessionVariants)
      => (/\ req[r1].sessionId # req[r2].sessionId
          /\ req[r1].transport # req[r2].transport
          /\ {req[r1].sessionId, req[r2].sessionId} \subseteq DOMAIN sessions)

\* C3, as the specification states it: a request that supplies an identifier
\* absent from the registry gets a generated identifier, and the binding is
\* not registered under the string the client supplied.
C3_AbsentIdIsReplaced ==
  \A r \in Req :
    (Handling(r) /\ ~req[r].found /\ Truthy(req[r].hdr) /\ variant \in SessionVariants)
      => (req[r].sessionId # req[r].hdr /\ req[r].hdr \notin DOMAIN sessions)

\* C3, as the code has it: the identifier a client supplies is the key of the
\* new binding; an identifier is generated only for a request whose header is
\* missing or empty.
C3_SuppliedIdIsKey ==
  \A r \in Req :
    (req[r].pc \in {"connecting", "handling"} /\ variant \in SessionVariants)
      => (/\ Truthy(req[r].hdr) => (req[r].sessionId = req[r].hdr /\ ~req[r].gen)
          /\ ~Truthy(req[r].hdr) => (req[r].sessionId \in GenIds /\ req[r].gen)
          /\ Handling(r) => req[r].sessionId \in DOMAIN sessions)

\* a binding was created under the client's own string s1
C3_Witness ==
  \E r \in Req :
    /\ Handling(r) /\ ~req[r].found
    /\ req[r].hdr = "s1"
    /\ "s1" \in DOMAIN sessions
    /\ sessions["s1"] = req[r].transport

\* C4: a request is handed to a transport only once the transport is in the
\* registry under the request's identifier, and no request is ever being
\* handled by a transport that is not in the registry.
C4_HandledTransportIsRegistered ==
  \A r \in Req :
    Handling(r) =>
      (/\ req[r].sessionId \in DOMAIN sessions
       /\ sessions[req[r].sessionId] = req[r].transport)

\* C5: every failure of an /mcp request, in connect or in handleRequest,
\* ends with a response: the request is answered, and where the transport had
\* sent nothing the answer is a structured error with a 5xx status.
C5_FailuresAnswered ==
  \A r \in Req :
    req[r].failed # "none" =>
      (/\ req[r].pc = "done"
       /\ req[r].sent
       /\ req[r].resp.src \in {"transport", "catch", "errorHandler"}
       /\ req[r].resp.src # "transport" =>
            (/\ req[r].resp.status >= 500
             /\ "error" \in req[r].resp.fields
             /\ req[r].resp.error # ""))

\* the part of C5 that the code keeps: a failure that comes before the
\* transport has written anything, or after it has written everything, ends
\* with a response
FailuresAnsweredUnlessStarted ==
  \A r \in Req :
    (req[r].failed # "none" /\ ~req[r].started) =>
      (/\ req[r].pc = "done"
       /\ req[r].sent
       /\ req[r].resp.src \in {"transport", "catch", "errorHandler"}
       /\ req[r].resp.src # "transport" =>
            (/\ req[r].resp.status >= 500
             /\ "error" \in req[r].resp.fields
             /\ req[r].resp.error # ""))

\* connect failed in the stateless server, which has no try/catch, and the
\* request was answered by the error handler
C5_Witness ==
  \E r \in Req :
    /\ variant = "basic"
    /\ req[r].failed = "connect"
    /\ req[r].resp.src = "errorHandler"
    /\ req[r].resp.status = 500

Listed(r, method) ==
  /\ req[r].pc = "done"
  /\ req[r].resp.src = "transport"
  /\ req[r].body.method = method

\* C10: tools/list and resources/list return the entries registered at
\* startup, whatever requests came before and whatever the session: any two
\* listings of the same kind are equal.
C10_ListingsAreFixed ==
  /\ \A r \in Req :
       /\ Listed(r, "tools/list") => req[r].resp.items = ToolTable(variant)
       /\ Listed(r, "resources/list") => req[r].resp.items = ResourceTable(variant)
  /\ \A r1, r2 \in Req, m \in {"tools/list", "resources/list"} :
       (Listed(r1, m) /\ Listed(r2, m)) => req[r1].resp.items = req[r2].resp.items

\* two tool listings were answered after two sessions had been created, a
\* client-named one among them
C10_Witness ==
  /\ \A r \in Req : Listed(r, "tools/list") /\ req[r].failed = "none"
  /\ "s1" \in DOMAIN sessions
  /\ Cardinality(DOMAIN sessions) >= 2
  /\ ToolTable(variant) # <<>>

---------------------------------------------------------------------------
(* Further properties of a tools/call (SpecTools) *)

SayHelloDone == tpc = "done" /\ call.name = "sayHello"

\* the answer the specification gives for a sayHello call
SayHelloAsSpecified(c, res) ==
  IF c.hasArgs /\ NameSchema(c.args.name)
  THEN res = Success("Hello, " \o c.args.name.s \o "!")
  ELSE res.kind = "error"

\* C11: for every name of 1 to 100 characters tools/call sayHello returns a
\* success result whose text is exactly 'Hello, <name>!'; a missing, empty
\* or over-long name yields a validation error instead.
C11_SayHelloResult ==
  SayHelloDone => SayHelloAsSpecified(call, result)

\* C11 holds for the two files that validate the name with NameSchema
SayHelloOfNameSchemaFiles ==
  (SayHelloDone /\ variant \in {"main", "zod"}) => SayHelloAsSpecified(call, result)

\* C12: resources/read of 'mcp://server-info' returns a success result
\* holding a JSON descriptor with at least the fields name and version, on
\* every server built by createMCPServer.
C12_ServerInfoReadable ==
  read.uri = "mcp://server-info" =>
    (read.kind = "success" /\ {"name", "version"} \subseteq read.fields)

\* C12 holds for the files that register the resource
ServerInfoWhereRegistered ==
  (read.uri = "mcp://server-info" /\ variant \in {"zod", "sdk", "handlers"}) =>
    (/\ read.kind = "success"
     /\ read.mimeType = "application/json"
     /\ {"name", "version"} \subseteq read.fields)

---------------------------------------------------------------------------
(* Lifetime of the session registry (Spec) *)

\* C13: no session entry is removed or expired while the server runs: the
\* set of registry keys only grows, and every identifier once registered
\* stays bound to a transport.
C13_RegistryOnlyGrows ==
  [][/\ DOMAIN sessions \subseteq DOMAIN sessions'
     /\ \A k \in DOMAIN sessions : sessions'[k] # NoTransport]_vars

\* two sessions are registered and a request on one of them has failed
C13_Witness ==
  /\ Cardinality(DOMAIN sessions) = 2
  /\ \E r \in Req : req[r].failed = "handle"

\* C14: on shutdown, also when SIGINT or SIGTERM triggers it, the session
\* cleanup runs and the registry is empty before the process exits.
C14_RegistryClearedAtExit ==
  phase = "exited" => sessions = OnCloseHook(sessions)

\* C15: the registry changes only in the /mcp route, at the step where a
\* request that awaited connect() goes on to be handled, and then by the
\* insertion of that request's id and transport, every other entry kept;
\* a step that answers /health, /info, /hello/:name, a weather route or the
\* error handler or that ends the process leaves the registry as it was.
RegistryInsertBy(r) ==
  /\ req[r].pc = "connecting"
  /\ req'[r].pc = "handling"
  /\ DOMAIN sessions' = (DOMAIN sessions) \cup {req[r].sessionId}
  /\ sessions'[req[r].sessionId] = req[r].transport
  /\ \A k \in (DOMAIN sessions) \ {req[r].sessionId} : sessions'[k] = sessions[k]

C15_RegistryChangedOnlyByResolution ==
  [][/\ (sessions' # sessions) => \E r \in Req : RegistryInsertBy(r)
     /\ (rest' # rest \/ phase' # phase) => sessions' = sessions]_vars

C15_Witness ==
  /\ rest.route = "/health"
  /\ rest.sessions = 2
  /\ DOMAIN sessions = {"s1", "g1"}
  /\ sessions["s1"] # sessions["g1"]

\* the same for the tool and resource handlers, run one call at a time
HandlersLeaveRegistry == [][sessions' = sessions]_vars

\* C16: a session-creation line is logged exactly in the steps that insert
\* a new binding, once per insertion and for the inserted id, and no line
\* is logged for a request whose id is registered already.
C16_LogExactlyOnInsert ==
  [][/\ (log' # log) <=> (sessions' # sessions)
     /\ (log' # log) =>
          \E id \in Ids :
            /\ id \notin DOMAIN sessions
            /\ DOMAIN sessions' = (DOMAIN sessions) \cup {id}
            /\ log' = LogInfo(log, id)]_vars

\* what holds of the log also when requests overlap: a line is logged in
\* exactly the steps that write the registry, for the id written
LogFollowsRegistryWrite ==
  [][/\ (log' # log) <=> (sessions' # sessions)
     /\ (log' # log) =>
          \E r \in Req :
            /\ req[r].pc = "connecting"
            /\ req[r].sessionId \in DOMAIN sessions'
            /\ sessions'[req[r].sessionId] = req[r].transport
            /\ log' = LogInfo(log, req[r].sessionId)]_vars

\* C17: requests do not block one another, and with a fair event loop
\* every request that is suspended in connect() or in the transport goes
\* on to receive a response.
Suspended(r) == req[r].pc \in {"connecting", "handling"}

Answered(r) == req[r].pc = "done" /\ (req[r].sent \/ req[r].started)

C17_EveryRequestAnswered == \A r \in Req : Suspended(r) ~> Answered(r)

\* the part that holds: a suspended request can go on whatever the other
\* request is doing, as long as the process runs
NoRequestBlocksAnother ==
  \A r \in Req :
    (phase = "running" /\ Suspended(r)) =>
      \/ ENABLED ConnectResolve(r)
      \/ ENABLED (\E b \in Bodies : HandleResolve(r, b))

\* and every suspended request receives a response, or the start of one,
\* unless the process exits first
AnsweredUnlessExited ==
  \A r \in Req : Suspended(r) ~> (Answered(r) \/ phase = "exited")

\* C18: a weather tool has a success result only once its callback has
\* returned, the return comes after the simulated API call has resolved, and
\* the text of the result ends with the value that call resolved with.
EndsWith(text, v) ==
  /\ Len(text) >= Len(v)
  /\ SubSeq(text, Len(text) - Len(v) + 1, Len(text)) = v

ApiCalls == {"simulateWeatherAPI", "simulateAlertsAPI"}

C18_ResultAfterApiResolved ==
  (call.name \in Range(WeatherTools) /\ result.kind = "success") =>
    /\ tpc = "done"
    /\ Len(trace) >= 3
    /\ trace[Len(trace)] = "return"
    /\ trace[Len(trace) - 1] \in ApiTexts
    /\ trace[Len(trace) - 2] \in ApiCalls
    /\ EndsWith(result.text, trace[Len(trace) - 1])

C18_Witness ==
  /\ call.name = "getWeatherForecast"
  /\ result.kind = "success"
  /\ trace = <<"validate", "simulateWeatherAPI", "Rainy 18C", "return">>

\* C19: the bodies sent on the failure paths have one shape: the body of
\* the /mcp catch block, the body of the Fastify error handler and the
\* bodies of handleError all have the same set of fields.
FailureBodies ==
  {req[r].resp.fields : r \in {x \in Req : req[x].resp.src \in {"catch", "errorHandler"}}}
    \cup (IF rest.route \in {"errorHandler", "handleError"} THEN {rest.fields} ELSE {})

C19_OneEnvelope == Cardinality(FailureBodies) <= 1

\* what the failure bodies do share: every one has the field "error", and
\* its status is 400 or more
FailureBodiesHaveError ==
  /\ \A f \in FailureBodies : "error" \in f
  /\ rest.route \in {"errorHandler", "handleError"} => rest.status >= 400

\* C20: the body reported for an internal error does not depend on the
\* exception: two requests with the same message that fail at the same
\* await, each with its own exception, and are answered by the catch block
\* or by the error handler receive identical bodies.
AnsweredInternally(r) ==
  /\ req[r].pc = "done"
  /\ req[r].resp.src \in {"catch", "errorHandler"}

C20_GenericFailureBody ==
  \A r \in Req, q \in Req :
    (/\ AnsweredInternally(r)
     /\ AnsweredInternally(q)
     /\ req[r].body = req[q].body
     /\ req[r].failed = req[q].failed) => req[r].resp = req[q].resp

\* the part of the body that is fixed: status, field names and, in the catch
\* block, the label in "error"
FailureLabelIsFixed ==
  \A r \in Req :
    req[r].resp.src = "catch" =>
      (/\ req[r].resp.status = 500
       /\ req[r].resp.fields = {"error", "message"}
       /\ req[r].resp.error = "Internal MCP server error")

\* C21: handleError answers by the class of the error: a ZodError or a
\* ValidationError with status 400 and the field violations under "details";
\* an MCPError, or another error whose message mentions MCP, with status 500;
\* any other error with its own statusCode, or 500 when it has none.  One
\* reply is sent for the error.
StatusAsSpecified(e) ==
  IF e.class \in {"ZodError", "ValidationError"} THEN 400
  ELSE IF e.class = "MCPError" \/ IncludesMCP(e.message) THEN 500
  ELSE IF e.statusCode # 0 THEN e.statusCode ELSE 500

C21_StatusByErrorClass ==
  rest.route = "handleError" =>
    /\ rest.status = StatusAsSpecified(rest.cause)
    /\ rest.cause.class \in {"ZodError", "ValidationError"} =>
         (rest.cause.details # <<>> /\ "details" \in rest.fields)
    /\ {"error", "statusCode"} \subseteq rest.fields

C21_Witness ==
  /\ rest.route = "handleError"
  /\ rest.cause.class = "ValidationError"
  /\ IncludesMCP(rest.cause.message)
  /\ rest.status = 400

\* C22: the session of a request is resolved from the Mcp-Session-Id header
\* alone, whatever the message in the body, a session identifier in its
\* params included: the key is the header (or a generated identifier when
\* the header is missing or empty), the binding is the one the registry holds
\* under that key, and a new one is built only when it holds none.
Arrives(r) == req[r].pc = "idle" /\ req'[r].pc \in {"connecting", "handling"}

ResolvedFromHeader(r) ==
  /\ IF Truthy(req'[r].hdr)
     THEN req'[r].sessionId = req'[r].hdr
     ELSE req'[r].sessionId \in GenIds
  /\ IF req'[r].sessionId \in DOMAIN sessions
     THEN /\ req'[r].pc = "handling"
          /\ req'[r].transport = sessions[req'[r].sessionId]
     ELSE /\ req'[r].pc = "connecting"
          /\ req'[r].transport = created + 1

C22_ResolutionIgnoresBody ==
  [][\A r \in Req :
       (Arrives(r) /\ variant \in SessionVariants) => ResolvedFromHeader(r)]_vars

\* two requests in flight with the header s1, the second served by the
\* binding the first created
C22_Witness ==
  /\ req["r1"].hdr = "s1" /\ req["r2"].hdr = "s1"
  /\ req["r1"].sessionId = "s1" /\ req["r2"].sessionId = "s1"
  /\ Handling("r1") /\ Handling("r2")
  /\ req["r2"].found
  /\ req["r1"].transport = req["r2"].transport

\* C23: the field "sessions" of the /health reply is the number of entries
\* of the registry when the request is answered, and that number is the
\* number of sessions created so far: 0 at startup, one more for each
\* creation.
RECURSIVE SumOver(_, _)
SumOver(l, ks) ==
  IF ks = {} THEN 0
  ELSE LET k == CHOOSE x \in ks : TRUE IN l[k] + SumOver(l, ks \ {k})

\* the sessions reported as created so far
Creations == SumOver(log, DOMAIN log)

C23_HealthCountsSessions ==
  [][(rest' # rest /\ rest'.route = "/health" /\ variant \in SessionVariants) =>
       (/\ "sessions" \in rest'.fields
        /\ rest'.sessions = Cardinality(DOMAIN sessions)
        /\ rest'.sessions = Creations)]_vars

\* the part that holds: the field is the size of the registry at the time
\* of the request
HealthReportsRegistrySize ==
  [][(rest' # rest /\ variant \in SessionVariants) =>
       (/\ "sessions" \in rest'.fields
        /\ rest'.sessions = Cardinality(DOMAIN sessions))]_vars

\* C24: within its kind every capability name is registered once, the
\* tools of registerWeatherTools included, and requests leave the table as
\* startup built it: a listing answered after other requests shows each
\* registered name exactly once and nothing else.
Unique(q) == \A i, j \in DOMAIN q : q[i] = q[j] => i = j

C24_CapabilitiesUniqueAndFixed ==
  /\ Unique(ToolTable(variant))
  /\ Unique(ResourceTable(variant))
  /\ \A r \in Req :
       /\ Listed(r, "tools/list") =>
            (Unique(req[r].resp.items)
             /\ Range(req[r].resp.items) = Range(ToolTable(variant)))
       /\ Listed(r, "resources/list") =>
            (Unique(req[r].resp.items)
             /\ Range(req[r].resp.items) = Range(ResourceTable(variant)))

\* a tools/call was served, and the listing beside it shows the two tools
\* of createMCPServer and the two of registerWeatherTools
C24_Witness ==
  /\ req["r1"].pc = "done"
  /\ req["r1"].body.method = "tools/call"
  /\ req["r1"].resp.res.kind = "success"
  /\ Listed("r2", "tools/list")
  /\ Len(req["r2"].resp.items) = 4
  /\ Range(WeatherTools) \subseteq Range(req["r2"].resp.items)

\* C25: a process starts one transport mode.  Where the file has the
\* isStdioMode test, STDIO is the mode exactly when the command line has
\* --stdio or MCP_STDIO is 'true'; in STDIO mode no HTTP listener and no
\* session registry exist, in HTTP mode no STDIO transport is connected.
ModeChosen == boot.mode # "none"

C25_OneTransportMode ==
  /\ ~(boot.stdio /\ boot.listener)
  /\ (ModeChosen /\ variant \in StdioVariants) =>
       (boot.mode = "stdio" <=> (boot.stdioArg \/ boot.env = "true"))
  /\ boot.mode = "stdio" => (~boot.listener /\ ~boot.registry /\ sessions = EmptyMap)
  /\ boot.mode = "http" => ~boot.stdio
  /\ phase = "stdio" => boot.stdio
  /\ phase = "running" => boot.listener

\* MCP_STDIO is set, but not to 'true', and the process listens on HTTP
C25_Witness ==
  /\ variant = "main"
  /\ ~boot.stdioArg /\ boot.env = "TRUE"
  /\ phase = "running"
  /\ boot.listener /\ boot.registry /\ ~boot.stdio

\* the process was started with --stdio and serves STDIO
StdioModeReached ==
  /\ boot.stdioArg /\ phase = "stdio" /\ boot.stdio

\* C26: under every interleaving of /mcp requests one transport is built
\* per session identifier: an entry of the registry is never overwritten by
\* a second transport, and requests that overlap on an identifier not yet
\* registered are served by one binding.
RegistryEntriesKept ==
  \A k \in DOMAIN sessions : k \in DOMAIN sessions' /\ sessions'[k] = sessions[k]

OverlappingServedByOne ==
  \A r \in Req, q \in Req :
    (/\ variant \in SessionVariants
     /\ req'[r].pc = "handling" /\ req'[q].pc = "handling"
     /\ req'[r].sessionId = req'[q].sessionId)
      => req'[r].transport = req'[q].transport

C26_NoSecondTransport == [][RegistryEntriesKept /\ OverlappingServedByOne]_vars

\* what holds when requests on one identifier do not overlap: a request
\* that arrives after the insert builds nothing and changes nothing
NoOverwriteAfterInsert ==
  [][\A r \in Req :
       (Arrives(r) /\ req'[r].sessionId \in DOMAIN sessions)
         => (created' = created /\ sessions' = sessions /\ req'[r].found)]_vars

\* C27: a transport enters the registry only in the step in which its
\* connect() has resolved, under the identifier of the request that built it
\* (the one its sessionIdGenerator returns).  When connect() rejects, the
\* registry stays as it was and does not hold the failed transport, and a
\* later request whose identifier is not registered builds a transport anew.
Stored == {sessions[k] : k \in DOMAIN sessions}

ConnectFails(r) == req[r].pc = "connecting" /\ req'[r].failed = "connect"

NoFallbackAfterEndedResponse ==
  \A r \in Req : req[r].resp.src = "transport" => ~req[r].fallback

\* C29: the validation helpers return the parsed data exactly when the
\* schema accepts the input; when the schema rejects it they throw a
\* validation failure that carries every violated field with its path and
\* message (validateToolArgs in the text of the Error, validateAndThrow in the
\* details of the ValidationError); an error that is no ZodError is thrown
\* on unchanged.
Contains(text, part) ==
  \E i \in 1..Len(text) :
    i + Len(part) - 1 <= Len(text) /\ SubSeq(text, i, i + Len(part) - 1) = part

Accepted(lat, lng) == LatitudeSchema(lat) /\ LongitudeSchema(lng)

Violated(lat, lng) ==
  (IF LatitudeSchema(lat) THEN {} ELSE {"latitude"})
    \cup (IF LongitudeSchema(lng) THEN {} ELSE {"longitude"})

CarriesEveryViolation(v) ==
  LET issues == ForecastIssues(v.lat, v.lng)
  IN /\ {issues[i].path : i \in DOMAIN issues} = Violated(v.lat, v.lng)
     /\ IF v.helper = "validateToolArgs"
        THEN /\ v.out.error.class = "Error"
             /\ \A i \in DOMAIN issues :
                  Contains(v.out.error.message,
                           issues[i].path \o ": " \o issues[i].message)
        ELSE /\ v.out.error.class = "ValidationError"
             /\ v.out.error.details = issues

C29_HelpersRejectInvalidInput ==
  val.helper # "" =>
    IF val.schema # "WeatherForecastSchema"
    THEN val.out.kind = "throw" /\ val.out.error = SchemaParse(val.schema, val.lat, val.lng).error
    ELSE IF Accepted(val.lat, val.lng)
    THEN /\ val.out.kind = "return"
         /\ val.out.data = [latitude |-> val.lat, longitude |-> val.lng]
    ELSE /\ val.out.kind = "throw"
         /\ CarriesEveryViolation(val)

\* both coordinates were out of range and validateToolArgs named both
C29_Witness ==
  /\ val.helper = "validateToolArgs"
  /\ Violated(val.lat, val.lng) = {"latitude", "longitude"}
  /\ Contains(val.out.error.message, "latitude: Latitude must be between -90 and 90")
  /\ Contains(val.out.error.message,
              "longitude: Longitude must be between -180 and 180")

\* C30: an empty Mcp-Session-Id header is treated like a missing one: the
\* route resolves it to a generated identifier, the same one the request
\* would get with no header, and the empty string is never a key of the
\* registry.
InFlight(r) == req[r].pc \in {"connecting", "handling"}

C30_EmptyHeaderIsAbsent ==
  /\ "" \notin DOMAIN sessions
  /\ \A g \in GenIds :
       \A p \in ParamIds : SessionIdOf("", p, g) = SessionIdOf(NoHdr, p, g)
  /\ Generated("") = Generated(NoHdr)
  /\ \A r \in Req :
       (variant \in SessionVariants /\ InFlight(r) /\ req[r].hdr = "") =>
         /\ req[r].gen
         /\ req[r].sessionId \in GenIds

\* a request with an empty header is being handled by the transport stored
\* under the identifier generated for it
C30_Witness ==
  \E r \in Req :
    /\ variant \in SessionVariants
    /\ req[r].pc = "handling"
    /\ req[r].hdr = ""
    /\ req[r].sessionId \in GenIds
    /\ req[r].sessionId \in DOMAIN sessions

====
